---- MODULE Spec2Model ----
(***************************************************************************)
(* GymTrackerBackend: the ownership-scoped API over accounts, workouts and *)
(* exercises (api/views.py, api/mixins.py, api/serializers.py) and the     *)
(* daily protein counter of an account (api/models.py).                    *)
(***************************************************************************)
EXTENDS Integers, Sequences, FiniteSets, TLC

(***************************************************************************)
(* Bounds of the model.                                                    *)
(***************************************************************************)
MaxWorkouts == 2        \* workout ids ever allocated
MaxRows == 3            \* workout and exercise ids ever allocated in the ownership scenarios
MaxFieldExercises == 2  \* exercise ids ever allocated in the field-rule scenarios
MaxDay == 2             \* calendar days the clock runs through
MaxRequests == 2        \* concurrent protein requests in flight

(***************************************************************************)
(* Program constants.                                                      *)
(***************************************************************************)
ProteinCap == 500       \* models.py: MaxValueValidator(500), add_protein
DefaultGoal == 150      \* models.py: protein_goal default
MaxNameLen == 30        \* models.py: CharField(max_length=30)
MaxCount == 99          \* models.py: sets / reps MaxValueValidator(99)
WeightDigits == 5       \* models.py: weight max_digits
WeightPlaces == 2       \* models.py: weight decimal_places

Anon == 0               \* request.user of a request without a valid token

(***************************************************************************)
(* Request values.  A payload value is an integer, a string (a sequence of *)
(* characters) or a decimal number n / 10^p.                               *)
(***************************************************************************)
IntV(n) == [t |-> "int", n |-> n, p |-> 0, s |-> << >>]
StrV(s) == [t |-> "str", n |-> 0, p |-> 0, s |-> s]
DecV(n, p) == [t |-> "dec", n |-> n, p |-> p, s |-> << >>]

Digits == <<"0", "1", "2", "3", "4", "5", "6", "7", "8", "9">>

DigitOf(c) == (CHOOSE i \in 1..10 : Digits[i] = c) - 1

IsDigit(c) == \E i \in 1..10 : Digits[i] = c

Pow10(p) == IF p = 0 THEN 1 ELSE IF p = 1 THEN 10 ELSE IF p = 2 THEN 100 ELSE 1000

RECURSIVE DigitsValue(_)
DigitsValue(s) ==
    IF s = << >> THEN 0
    ELSE 10 * DigitsValue(SubSeq(s, 1, Len(s) - 1)) + DigitOf(s[Len(s)])

\* the text of a (signed) decimal integer, as Python's int(str) reads it
IsIntText(s) ==
    LET body == IF s # << >> /\ s[1] = "-" THEN Tail(s) ELSE s
    IN  body # << >> /\ \A i \in 1..Len(body) : IsDigit(body[i])

IntOfText(s) ==
    IF s[1] = "-" THEN 0 - DigitsValue(Tail(s)) ELSE DigitsValue(s)

\* Python int(x): ValueError / TypeError give ok = FALSE; a float truncates
PyInt(v) ==
    IF v.t = "int" THEN [ok |-> TRUE, n |-> v.n]
    ELSE IF v.t = "dec"
         THEN [ok |-> TRUE,
               n |-> IF v.n >= 0 THEN v.n \div Pow10(v.p)
                     ELSE 0 - ((0 - v.n) \div Pow10(v.p))]
    ELSE IF IsIntText(v.s) THEN [ok |-> TRUE, n |-> IntOfText(v.s)]
    ELSE [ok |-> FALSE, n |-> 0]

\* serializers.IntegerField: an integer, integer text or a whole decimal
IntegerField(v) ==
    IF v.t = "int" THEN [ok |-> TRUE, n |-> v.n]
    ELSE IF v.t = "dec"
         THEN [ok |-> v.n % Pow10(v.p) = 0, n |-> v.n \div Pow10(v.p)]
    ELSE IF IsIntText(v.s) THEN [ok |-> TRUE, n |-> IntOfText(v.s)]
    ELSE [ok |-> FALSE, n |-> 0]

\* serializers.DecimalField(max_digits, decimal_places): hundredths stored
DecimalField(v) ==
    LET d == IF v.t = "dec" THEN [ok |-> TRUE, n |-> v.n, p |-> v.p]
             ELSE IF v.t = "int" THEN [ok |-> TRUE, n |-> v.n, p |-> 0]
             ELSE IF IsIntText(v.s)
                  THEN [ok |-> TRUE, n |-> IntOfText(v.s), p |-> 0]
             ELSE [ok |-> FALSE, n |-> 0, p |-> 0]
        abs == IF d.n < 0 THEN 0 - d.n ELSE d.n
        whole == abs \div Pow10(d.p)
    IN  [ok |-> /\ d.ok
                /\ d.p <= WeightPlaces
                /\ whole < Pow10(WeightDigits - WeightPlaces),
         n |-> IF d.p <= WeightPlaces
               THEN d.n * Pow10(WeightPlaces - d.p) ELSE 0]

\* serializers.CharField(max_length): text, not blank
CharField(v) ==
    [ok |-> v.t = "str" /\ Len(v.s) >= 1 /\ Len(v.s) <= MaxNameLen,
     s |-> v.s]

VARIABLES
    users,        \* account id -> [username, protein_goal, todays_protein, protein_last_update]
    workouts,     \* workout id -> [name, owner]
    exercises,    \* exercise id -> [name, sets, reps, weight, workout]
    seq,          \* next primary key of each table
    today,        \* date.today()
    last,         \* the last request served: its view, target and status
    lastProtein,  \* the last protein request served
    created,      \* exercise id -> the name and sets it was created with
    reqs          \* protein requests in flight (concurrent handling)

vars == <<users, workouts, exercises, seq, today, last, lastProtein, created, reqs>>

DB == [users |-> users, workouts |-> workouts, exercises |-> exercises, seq |-> seq]

(***************************************************************************)
(* Responses.                                                              *)
(***************************************************************************)
Resp(status, detail, errors, body) ==
    [status |-> status, detail |-> detail, errors |-> errors, body |-> body]

Result(db, resp) == [db |-> db, resp |-> resp]

Unauthorized(db) ==
    Result(db, Resp("Unauthorized", "Authentication credentials were not provided.", {}, {}))

MethodNotAllowed(db) == Result(db, Resp("MethodNotAllowed", "Method not allowed.", {}, {}))

NotFound(db, detail) == Result(db, Resp("NotFound", detail, {}, {}))

ValidationError(db, detail, errors) == Result(db, Resp("ValidationError", detail, errors, {}))

Keys(data) == DOMAIN data

(***************************************************************************)
(* permission_classes and the methods each view answers (views.py).        *)
(***************************************************************************)
Views == {"users", "workouts", "workout-delete", "exercises", "exercise-detail", "protein"}

\* the workout list left open
PermissionClassesOpenList(view) ==
    IF view \in {"users", "workouts"} THEN "AllowAny" ELSE "IsAuthenticated"

PermissionClasses(view) == IF view = "users" THEN "AllowAny" ELSE "IsAuthenticated"

HasPermission(view, user) ==
    PermissionClasses(view) = "AllowAny" \/ user # Anon

HttpMethodNames(view) ==
    CASE view = "users" -> {"POST"}
      [] view = "workouts" -> {"GET", "POST"}
      [] view = "workout-delete" -> {"DELETE"}
      [] view = "exercises" -> {"GET", "POST"}
      [] view = "exercise-detail" -> {"PATCH", "DELETE"}
      [] view = "protein" -> {"GET", "PATCH"}

(***************************************************************************)
(* WorkoutAccessMixin.get_workout (mixins.py).                             *)
(***************************************************************************)
\* a resolver that tells the caller the workout is someone else's
get_workout_forbidden(db, user, wid) ==
    IF wid \notin DOMAIN db.workouts
    THEN [found |-> FALSE, error |-> NotFound(db, "Workout not found")]
    ELSE IF db.workouts[wid].owner # user
    THEN [found |-> FALSE,
          error |-> Result(db, Resp("PermissionDenied", "Not your workout", {}, {}))]
    ELSE [found |-> TRUE, error |-> Result(db, Resp("OK", "", {}, {}))]

get_workout(db, user, wid) ==
    IF wid \notin DOMAIN db.workouts
    THEN [found |-> FALSE, error |-> NotFound(db, "Workout not found")]
    ELSE IF db.workouts[wid].owner # user
    THEN [found |-> FALSE, error |-> NotFound(db, "Workout not found")]
    ELSE [found |-> TRUE, error |-> Result(db, Resp("OK", "", {}, {}))]

(***************************************************************************)
(* WorkoutSerializer and the workout views.                                *)
(***************************************************************************)
WorkoutJson(db, w) ==
    [id |-> w, name |-> db.workouts[w].name, owner |-> db.workouts[w].owner]

\* the queryset without its owner filter
WorkoutQuerysetUnscoped(db, user) == DOMAIN db.workouts

WorkoutQueryset(db, user) == {w \in DOMAIN db.workouts : db.workouts[w].owner = user}

\* a list of every stored workout
WorkoutListAll(db, user) ==
    Result(db, Resp("OK", "", {}, {WorkoutJson(db, w) : w \in DOMAIN db.workouts}))
WorkoutList(db, user) ==
    Result(db, Resp("OK", "", {}, {WorkoutJson(db, w) : w \in WorkoutQueryset(db, user)}))

WorkoutErrors(data) ==
    IF "name" \notin Keys(data) THEN {"name"}
    ELSE IF CharField(data["name"]).ok THEN {} ELSE {"name"}

\* a create that takes the owner from the payload when it names one
WorkoutCreateOwnerFromPayload(db, user, data) ==
    IF WorkoutErrors(data) # {} THEN ValidationError(db, "", WorkoutErrors(data))
    ELSE LET id == db.seq.workout
             row == [name |-> CharField(data["name"]).s,
                     owner |-> IF "owner" \in Keys(data) THEN data["owner"].n ELSE user]
             db2 == [db EXCEPT !.workouts = [w \in DOMAIN db.workouts \cup {id} |->
                                               IF w = id THEN row ELSE db.workouts[w]],
                               !.seq.workout = id + 1]
         IN  Result(db2, Resp("Created", "", {}, {WorkoutJson(db2, id)}))
WorkoutCreate(db, user, data) ==
    IF WorkoutErrors(data) # {} THEN ValidationError(db, "", WorkoutErrors(data))
    ELSE LET id == db.seq.workout
             row == [name |-> CharField(data["name"]).s, owner |-> user]
             db2 == [db EXCEPT !.workouts = [w \in DOMAIN db.workouts \cup {id} |->
                                               IF w = id THEN row ELSE db.workouts[w]],
                               !.seq.workout = id + 1]
         IN  Result(db2, Resp("Created", "", {}, {WorkoutJson(db2, id)}))

\* a delete that removes the workout row and leaves its exercises
DeleteWorkoutRowOnly(db, wid) ==
    [db EXCEPT !.workouts = [w \in DOMAIN db.workouts \ {wid} |-> db.workouts[w]]]
\* on_delete=CASCADE of Exercise.workout
DeleteWorkoutRow(db, wid) ==
    [db EXCEPT !.workouts = [w \in DOMAIN db.workouts \ {wid} |-> db.workouts[w]],
               !.exercises = [e \in {x \in DOMAIN db.exercises : db.exercises[x].workout # wid}
                                |-> db.exercises[e]]]

WorkoutDestroy(db, user, wid) ==
    IF wid \notin WorkoutQueryset(db, user) THEN NotFound(db, "Not found.")
    ELSE Result(DeleteWorkoutRow(db, wid), Resp("NoContent", "", {}, {}))

(***************************************************************************)
(* ExerciseSerializer (serializers.py) and the exercise views.             *)
(***************************************************************************)
ExerciseWritable == {"name", "sets", "reps", "weight"}

ExerciseRequired == {"name", "sets", "reps"}

InRange(r, lo, hi) == r.ok /\ r.n >= lo /\ r.n <= hi

ExerciseFieldOk(f, v) ==
    CASE f = "name" -> CharField(v).ok
      [] f = "sets" -> InRange(IntegerField(v), 1, MaxCount)
      [] f = "reps" -> InRange(IntegerField(v), 1, MaxCount)
      [] f = "weight" -> DecimalField(v).ok /\ DecimalField(v).n >= 0

ExerciseFieldValue(f, v) ==
    CASE f = "name" -> CharField(v).s
      [] f = "sets" -> IntegerField(v).n
      [] f = "reps" -> IntegerField(v).n
      [] f = "weight" -> DecimalField(v).n

\* serializer.is_valid(): the fields in error
ExerciseErrors(data, partial) ==
    {f \in ExerciseWritable :
        IF f \in Keys(data) THEN ~ExerciseFieldOk(f, data[f])
        ELSE ~partial /\ f \in ExerciseRequired}

ExerciseValidated(data) ==
    [f \in ExerciseWritable \cap Keys(data) |-> ExerciseFieldValue(f, data[f])]

ExerciseJson(db, e) ==
    [id |-> e, name |-> db.exercises[e].name, sets |-> db.exercises[e].sets,
     reps |-> db.exercises[e].reps, weight |-> db.exercises[e].weight]

\* the queryset without its workout filter
ExerciseQuerysetUnscoped(db, wid) == DOMAIN db.exercises

ExerciseQueryset(db, wid) == {e \in DOMAIN db.exercises : db.exercises[e].workout = wid}

ExerciseList(db, user, wid) ==
    IF ~get_workout(db, user, wid).found THEN get_workout(db, user, wid).error
    ELSE Result(db, Resp("OK", "", {}, {ExerciseJson(db, e) : e \in ExerciseQueryset(db, wid)}))

ExerciseCreate(db, user, wid, data) ==
    IF ExerciseErrors(data, FALSE) # {}
    THEN ValidationError(db, "", ExerciseErrors(data, FALSE))
    ELSE IF ~get_workout(db, user, wid).found THEN get_workout(db, user, wid).error
    ELSE LET id == db.seq.exercise
             v == ExerciseValidated(data)
             row == [name |-> v["name"], sets |-> v["sets"], reps |-> v["reps"],
                     weight |-> IF "weight" \in DOMAIN v THEN v["weight"] ELSE 0,
                     workout |-> wid]
             db2 == [db EXCEPT !.exercises = [e \in DOMAIN db.exercises \cup {id} |->
                                                IF e = id THEN row ELSE db.exercises[e]],
                               !.seq.exercise = id + 1]
         IN  Result(db2, Resp("Created", "", {}, {ExerciseJson(db2, id)}))

\* an update that also lets sets through
ExerciseAllowedWithSets == {"weight", "reps", "sets"}

ExerciseAllowed == {"weight", "reps"}

\* ExerciseSerializer.update: [ok, forbidden, row]
ExerciseUpdate(instance, validated) ==
    LET forbidden == DOMAIN validated \ ExerciseAllowed
    IN  [ok |-> forbidden = {},
         forbidden |-> forbidden,
         row |-> [f \in DOMAIN instance |->
                    IF f \in ExerciseAllowed \cap DOMAIN validated
                    THEN validated[f] ELSE instance[f]]]

ExercisePatch(db, user, wid, eid, data) ==
    IF ~get_workout(db, user, wid).found THEN get_workout(db, user, wid).error
    ELSE IF eid \notin ExerciseQueryset(db, wid) THEN NotFound(db, "Not found.")
    ELSE IF ExerciseErrors(data, TRUE) # {}
    THEN ValidationError(db, "", ExerciseErrors(data, TRUE))
    ELSE LET u == ExerciseUpdate(db.exercises[eid], ExerciseValidated(data))
         IN  IF ~u.ok THEN ValidationError(db, "This field cannot be updated.", u.forbidden)
             ELSE LET db2 == [db EXCEPT !.exercises[eid] = u.row]
                  IN  Result(db2, Resp("OK", "", {}, {ExerciseJson(db2, eid)}))

ExerciseDestroy(db, user, wid, eid) ==
    IF ~get_workout(db, user, wid).found THEN get_workout(db, user, wid).error
    ELSE IF eid \notin ExerciseQueryset(db, wid) THEN NotFound(db, "Not found.")
    ELSE Result([db EXCEPT !.exercises = [e \in DOMAIN db.exercises \ {eid} |-> db.exercises[e]]],
                Resp("NoContent", "", {}, {}))

(***************************************************************************)
(* User (models.py): the daily protein counter.  `self` is the instance a  *)
(* request holds in memory, `row` the stored record; save(update_fields)   *)
(* writes the named fields of the instance to the row.                     *)
(***************************************************************************)
UserFields == {"username", "protein_goal", "todays_protein", "protein_last_update"}

Save(row, self, fields) ==
    [f \in DOMAIN row |-> IF f \in fields THEN self[f] ELSE row[f]]

\* a reset that moves the date on and keeps the old counter
reset_keeps_counter(self, day) ==
    IF self.protein_last_update # day
    THEN [self |-> [self EXCEPT !.protein_last_update = day],
          save |-> {"todays_protein", "protein_last_update"}]
    ELSE [self |-> self, save |-> {}]

\* a reset that does not look at the date
reset_every_call(self, day) ==
    [self |-> [self EXCEPT !.todays_protein = 0, !.protein_last_update = day],
     save |-> {"todays_protein", "protein_last_update"}]

\* User.reset_todays_protein: [self, save]
reset_todays_protein(self, day) ==
    IF self.protein_last_update # day
    THEN [self |-> [self EXCEPT !.todays_protein = 0, !.protein_last_update = day],
          save |-> {"todays_protein", "protein_last_update"}]
    ELSE [self |-> self, save |-> {}]

\* an add that refuses the amount which brings the counter to the cap
add_protein_off_by_one(self, protein_to_add) ==
    IF protein_to_add <= 0
    THEN [ok |-> FALSE, detail |-> "Protein amount must be greater than 0.",
          self |-> self, save |-> {}]
    ELSE IF self.todays_protein + protein_to_add >= ProteinCap
    THEN [ok |-> FALSE, detail |-> "Todays protein cannot be greater than 500.",
          self |-> self, save |-> {}]
    ELSE [ok |-> TRUE, detail |-> "",
          self |-> [self EXCEPT !.todays_protein = @ + protein_to_add],
          save |-> {"todays_protein"}]

\* an add that saves the new counter before it checks the cap
add_protein_saves_first(self, protein_to_add) ==
    IF protein_to_add <= 0
    THEN [ok |-> FALSE, detail |-> "Protein amount must be greater than 0.",
          self |-> self, save |-> {}]
    ELSE [ok |-> self.todays_protein + protein_to_add <= ProteinCap,
          detail |-> IF self.todays_protein + protein_to_add <= ProteinCap THEN ""
                     ELSE "Todays protein cannot be greater than 500.",
          self |-> [self EXCEPT !.todays_protein = @ + protein_to_add],
          save |-> {"todays_protein"}]

\* User.add_protein: [ok, detail, self, save]
add_protein(self, protein_to_add) ==
    IF protein_to_add <= 0
    THEN [ok |-> FALSE, detail |-> "Protein amount must be greater than 0.",
          self |-> self, save |-> {}]
    ELSE IF self.todays_protein + protein_to_add > ProteinCap
    THEN [ok |-> FALSE, detail |-> "Todays protein cannot be greater than 500.",
          self |-> self, save |-> {}]
    ELSE [ok |-> TRUE, detail |-> "",
          self |-> [self EXCEPT !.todays_protein = @ + protein_to_add],
          save |-> {"todays_protein"}]

\* ProteinSerializer: protein_goal writable, todays_protein read-only
ProteinErrors(data) ==
    IF "protein_goal" \in Keys(data)
       /\ ~InRange(IntegerField(data["protein_goal"]), 1, ProteinCap)
    THEN {"protein_goal"} ELSE {}

\* a serializer that takes todays_protein from the payload as well
ProteinSerializerWritesCounter(self, data) ==
    [self |-> [f \in DOMAIN self |->
                 IF f \in {"protein_goal", "todays_protein"} \cap Keys(data)
                 THEN IntegerField(data[f]).n ELSE self[f]],
     save |-> UserFields]

\* ModelSerializer.update: set the validated fields, then instance.save()
ProteinSerializerUpdate(self, data) ==
    [self |-> IF "protein_goal" \in Keys(data)
              THEN [self EXCEPT !.protein_goal = IntegerField(data["protein_goal"]).n]
              ELSE self,
     save |-> UserFields]

ProteinJson(self) ==
    [protein_goal |-> self.protein_goal, todays_protein |-> self.todays_protein]

SetUser(db, user, row) == [db EXCEPT !.users[user] = row]

\* ProteinRetrieveUpdateAPIView.get_object, then retrieve
ProteinRetrieve(db, user, day) ==
    LET r == reset_todays_protein(db.users[user], day)
        row == Save(db.users[user], r.self, r.save)
    IN  Result(SetUser(db, user, row), Resp("OK", "", {}, {ProteinJson(r.self)}))

\* UpdateModelMixin.update of the protein view, on the instance `self`
ProteinUpdate(db, user, day, data, self) ==
    LET r == reset_todays_protein(self, day)
        row1 == Save(db.users[user], r.self, r.save)
    IN  IF ProteinErrors(data) # {}
        THEN ValidationError(SetUser(db, user, row1), "", ProteinErrors(data))
        ELSE LET u == ProteinSerializerUpdate(r.self, data)
             IN  Result(SetUser(db, user, Save(row1, u.self, u.save)),
                        Resp("OK", "", {}, {ProteinJson(u.self)}))

\* a partial_update that adds to the stored counter before it resets it
ProteinPartialUpdateAddFirst(db, user, day, data) ==
    IF "protein_to_add" \in Keys(data)
    THEN IF ~PyInt(data["protein_to_add"]).ok
         THEN ValidationError(db, "Protein amount must be a valid number.", {})
         ELSE LET a == add_protein(db.users[user], PyInt(data["protein_to_add"]).n)
                  row1 == Save(db.users[user], a.self, a.save)
              IN  IF ~a.ok THEN ValidationError(SetUser(db, user, row1), a.detail, {})
                  ELSE ProteinUpdate(SetUser(db, user, row1), user, day, data, a.self)
    ELSE ProteinUpdate(db, user, day, data, db.users[user])
\* ProteinRetrieveUpdateAPIView.partial_update
ProteinPartialUpdate(db, user, day, data) ==
    IF "protein_to_add" \in Keys(data)
    THEN IF ~PyInt(data["protein_to_add"]).ok
         THEN ValidationError(db, "Protein amount must be a valid number.", {})
         ELSE LET r == reset_todays_protein(db.users[user], day)
                  row1 == Save(db.users[user], r.self, r.save)
                  a == add_protein(r.self, PyInt(data["protein_to_add"]).n)
                  row2 == Save(row1, a.self, a.save)
              IN  IF ~a.ok THEN ValidationError(SetUser(db, user, row2), a.detail, {})
                  ELSE ProteinUpdate(SetUser(db, user, row2), user, day, data, a.self)
    ELSE ProteinUpdate(db, user, day, data, db.users[user])

(***************************************************************************)
(* UserSerializer (serializers.py) and account creation.                   *)
(***************************************************************************)
UpperCase == <<"A", "B", "M", "O", "Y">>

LowerCase == <<"a", "b", "m", "o", "y">>

LowerChar(c) ==
    IF \E i \in 1..Len(UpperCase) : UpperCase[i] = c
    THEN LowerCase[CHOOSE i \in 1..Len(UpperCase) : UpperCase[i] = c]
    ELSE c

\* str.lower()
Lower(s) == [i \in 1..Len(s) |-> LowerChar(s[i])]

\* a lookup that compares usernames as they are written
UsernameTakenExact(db, value) ==
    \E u \in DOMAIN db.users : db.users[u].username = value

\* User.objects.filter(username__iexact=value).exists()
UsernameTaken(db, value) ==
    \E u \in DOMAIN db.users : Lower(db.users[u].username) = Lower(value)

MinPasswordLen == 8

CommonPasswords == {<<"p", "a", "s", "s", "w", "o", "r", "d">>}

\* django validate_password(password, user): the strength rules the tests name
validate_password(password, username) ==
    /\ Len(password) >= MinPasswordLen
    /\ ~(\A i \in 1..Len(password) : IsDigit(password[i]))
    /\ password \notin CommonPasswords
    /\ Lower(password) # Lower(username)

UserErrors(db, data) ==
    {f \in {"username", "password"} :
        \/ f \notin Keys(data)
        \/ data[f].t # "str"
        \/ data[f].s = << >>}
    \cup (IF "username" \in Keys(data) /\ data["username"].t = "str"
             /\ UsernameTaken(db, data["username"].s)
          THEN {"username"} ELSE {})

UserJson(db, u) == [id |-> u, username |-> db.users[u].username]

\* user.save(): User.save lowercases the username; the INSERT is refused
\* when the username column (unique in AbstractUser) already holds it
UserInsert(db, day, username) ==
    LET id == db.seq.user
        row == [username |-> Lower(username),
                protein_goal |-> DefaultGoal,
                todays_protein |-> 0,
                protein_last_update |-> day]
    IN  IF \E u \in DOMAIN db.users : db.users[u].username = row.username
        THEN [ok |-> FALSE, id |-> id, db |-> db]
        ELSE [ok |-> TRUE, id |-> id,
              db |-> [db EXCEPT !.users = [u \in DOMAIN db.users \cup {id} |->
                                             IF u = id THEN row ELSE db.users[u]],
                                !.seq.user = id + 1]]

\* a create that saves the account before it validates the password
UserSerializerCreateSavesFirst(db, day, data) ==
    LET i == UserInsert(db, day, Lower(data["username"].s))
    IN  IF ~validate_password(data["password"].s, Lower(data["username"].s))
        THEN ValidationError(i.db, "", {"password"})
        ELSE IF ~i.ok THEN Result(db, Resp("IntegrityError", "", {}, {}))
        ELSE Result(i.db, Resp("Created", "", {}, {UserJson(i.db, i.id)}))
\* UserSerializer.create: validate_password, then user.save()
UserSerializerCreate(db, day, data) ==
    LET username == Lower(data["username"].s)
    IN  IF ~validate_password(data["password"].s, username)
        THEN ValidationError(db, "", {"password"})
        ELSE LET i == UserInsert(db, day, username)
             IN  IF ~i.ok THEN Result(db, Resp("IntegrityError", "", {}, {}))
                 ELSE Result(i.db, Resp("Created", "", {}, {UserJson(i.db, i.id)}))

\* CreateUserAPIView: is_valid (validate_username), then UserSerializer.create
UserCreate(db, day, data) ==
    IF UserErrors(db, data) # {} THEN ValidationError(db, "", UserErrors(db, data))
    ELSE UserSerializerCreate(db, day, data)

(***************************************************************************)
(* APIView.dispatch: permissions first, then the handler of the method.    *)
(***************************************************************************)
Request(view, method, user, wid, eid, data) ==
    [view |-> view, method |-> method, user |-> user, wid |-> wid, eid |-> eid,
     data |-> data]

Handler(db, day, req) ==
    CASE req.view = "users" -> UserCreate(db, day, req.data)
      [] req.view = "workouts" /\ req.method = "GET" -> WorkoutList(db, req.user)
      [] req.view = "workouts" /\ req.method = "POST" -> WorkoutCreate(db, req.user, req.data)
      [] req.view = "workout-delete" -> WorkoutDestroy(db, req.user, req.wid)
      [] req.view = "exercises" /\ req.method = "GET" -> ExerciseList(db, req.user, req.wid)
      [] req.view = "exercises" /\ req.method = "POST" ->
            ExerciseCreate(db, req.user, req.wid, req.data)
      [] req.view = "exercise-detail" /\ req.method = "PATCH" ->
            ExercisePatch(db, req.user, req.wid, req.eid, req.data)
      [] req.view = "exercise-detail" /\ req.method = "DELETE" ->
            ExerciseDestroy(db, req.user, req.wid, req.eid)
      [] req.view = "protein" /\ req.method = "GET" -> ProteinRetrieve(db, req.user, day)
      [] req.view = "protein" /\ req.method = "PATCH" ->
            ProteinPartialUpdate(db, req.user, day, req.data)

Dispatch(db, day, req) ==
    IF ~HasPermission(req.view, req.user) THEN Unauthorized(db)
    ELSE IF req.method \notin HttpMethodNames(req.view) THEN MethodNotAllowed(db)
    ELSE Handler(db, day, req)

(***************************************************************************)
(* The requests the model sends.                                           *)
(***************************************************************************)
NoData == << >>

Amy == <<"a", "m", "y">>
AmyCaps == <<"A", "m", "y">>
Bob == <<"B", "o", "b">>
StrongPass == <<"S", "t", "r", "o", "n", "g", "1", "!">>
ShortPass == <<"s", "h", "o", "r", "t">>
Legs == <<"l", "e", "g", "s">>
Squat == <<"s", "q", "u", "a", "t">>
Bench == <<"b", "e", "n", "c", "h">>
LongName == [i \in 1..(MaxNameLen + 1) |-> "x"]

UserPayloads ==
    {[username |-> StrV(Amy), password |-> StrV(StrongPass)],
     [username |-> StrV(AmyCaps), password |-> StrV(StrongPass)],
     [username |-> StrV(Bob), password |-> StrV(StrongPass)],
     [username |-> StrV(Bob), password |-> StrV(ShortPass)]}

WorkoutPayloads ==
    {[name |-> StrV(Legs), owner |-> IntV(1)],
     [name |-> StrV(LongName)]}

\* payloads of the ownership scenarios
AccessCreatePayloads ==
    {[name |-> StrV(Squat), sets |-> IntV(3), reps |-> IntV(5), workout |-> IntV(2)],
     [name |-> StrV(Squat), sets |-> IntV(0), reps |-> IntV(5)]}

AccessPatchPayloads ==
    {[reps |-> IntV(3)],
     [name |-> StrV(Bench)],
     [sets |-> IntV(4), reps |-> IntV(3)]}

\* payloads of the field-rule scenarios
ExerciseCreatePayloads ==
    {[name |-> StrV(Squat), sets |-> IntV(3), reps |-> IntV(5)],
     [name |-> StrV(Squat), sets |-> IntV(3), reps |-> StrV(<<"5">>), weight |-> IntV(45),
      workout |-> IntV(2)],
     [name |-> StrV(Squat), sets |-> IntV(0), reps |-> IntV(5)],
     [sets |-> IntV(3), reps |-> IntV(5), weight |-> DecV(45125, 3)]}

ExercisePatchPayloads ==
    {[reps |-> IntV(3)],
     [weight |-> IntV(45)],
     [name |-> StrV(Bench)],
     [sets |-> IntV(4), reps |-> IntV(3)],
     [name |-> StrV(Bench), reps |-> IntV(100)],
     [id |-> IntV(9), reps |-> IntV(3)],
     [workout |-> IntV(2), weight |-> IntV(45)],
     [reps |-> IntV(0)]}

Callers == DOMAIN users \cup {Anon}

WorkoutIds == 1..MaxWorkouts

ExerciseIds == 1..(MaxRows - 1)

(***************************************************************************)
(* State machine: each action serves one request from dispatch to response.*)
(***************************************************************************)
NoRequests == [r \in {} |-> 0]

NoTrace == [view |-> "none", target |-> "none", status |-> "none"]

NoProteinTrace ==
    [method |-> "none", payload |-> "none", status |-> "none", changed |-> FALSE,
     stale |-> FALSE]

Init ==
    /\ users = << >>
    /\ workouts = << >>
    /\ exercises = << >>
    /\ seq = [user |-> 1, workout |-> 1, exercise |-> 1]
    /\ today = 1
    /\ last = NoTrace
    /\ lastProtein = NoProteinTrace
    /\ created = << >>
    /\ reqs = NoRequests

\* the name and sets each stored exercise was created with
Created(old, rows) ==
    [e \in DOMAIN rows |-> IF e \in DOMAIN old THEN old[e]
                           ELSE [name |-> rows[e].name, sets |-> rows[e].sets]]

\* how the request's path and payload relate to the stored records (trace only)
Target(db, req) ==
    IF req.user = Anon THEN "anonymous"
    ELSE IF req.view \notin {"workout-delete", "exercises", "exercise-detail"} THEN "none"
    ELSE IF req.wid \notin DOMAIN db.workouts THEN "absent"
    ELSE IF db.workouts[req.wid].owner # req.user THEN "foreign"
    ELSE IF req.view = "workout-delete"
            /\ \E e \in DOMAIN db.exercises : db.exercises[e].workout = req.wid
         THEN "own-parent"
    ELSE IF req.view # "exercise-detail" THEN "own"
    ELSE IF req.eid \notin DOMAIN db.exercises THEN "own-missing"
    ELSE IF db.exercises[req.eid].workout # req.wid THEN "own-elsewhere"
    ELSE "own-exercise"

Trace(db, req, r) ==
    [view |-> req.view, target |-> Target(db, req), status |-> r.resp.status]

\* what a protein request carried and whether it wrote to the store (trace only)
Payload(req) ==
    IF req.method = "GET" THEN "none"
    ELSE IF "todays_protein" \in Keys(req.data) THEN "counter"
    ELSE IF "protein_to_add" \notin Keys(req.data) THEN "goal"
    ELSE IF "protein_goal" \in Keys(req.data) THEN "add+goal" ELSE "add"

\* the request found a counter above zero that an earlier day left (trace only)
Stale(db, day, req) ==
    /\ req.user \in DOMAIN db.users
    /\ db.users[req.user].protein_last_update # day
    /\ db.users[req.user].todays_protein > 0

ProteinTrace(db, day, req, r) ==
    [method |-> req.method, payload |-> Payload(req), status |-> r.resp.status,
     changed |-> r.db # db, stale |-> Stale(db, day, req)]

Serve(req, maxRows) ==
    \E r \in {Dispatch(DB, today, req)} :
        /\ r.db.seq.workout <= MaxWorkouts + 1
        /\ r.db.seq.workout + r.db.seq.exercise <= maxRows + 2
        /\ users' = r.db.users
        /\ workouts' = r.db.workouts
        /\ exercises' = r.db.exercises
        /\ seq' = r.db.seq
        /\ last' = Trace(DB, req, r)
        /\ lastProtein' = IF req.view = "protein" THEN ProteinTrace(DB, today, req, r)
                          ELSE lastProtein
        /\ created' = Created(created, r.db.exercises)
        /\ UNCHANGED <<today, reqs>>

CreateUser ==
    \E data \in UserPayloads : Serve(Request("users", "POST", Anon, 0, 0, data), MaxRows)

ListWorkouts ==
    \E c \in Callers : Serve(Request("workouts", "GET", c, 0, 0, NoData), MaxRows)

CreateWorkout ==
    \E c \in Callers, data \in WorkoutPayloads :
        Serve(Request("workouts", "POST", c, 0, 0, data), MaxRows)

DeleteWorkout ==
    \E c \in Callers, w \in WorkoutIds :
        Serve(Request("workout-delete", "DELETE", c, w, 0, NoData), MaxRows)

\* GET or PATCH on the workout path, which only answers DELETE
ReadOrUpdateWorkout ==
    \E c \in Callers, w \in WorkoutIds, m \in {"GET", "PATCH"} :
        Serve(Request("workout-delete", m, c, w, 0, [name |-> StrV(Bench)]), MaxRows)

ListExercises ==
    \E c \in Callers, w \in WorkoutIds :
        Serve(Request("exercises", "GET", c, w, 0, NoData), MaxRows)

CreateExercise ==
    \E c \in Callers, w \in WorkoutIds, data \in AccessCreatePayloads :
        Serve(Request("exercises", "POST", c, w, 0, data), MaxRows)

UpdateExercise ==
    \E c \in Callers, w \in WorkoutIds, e \in ExerciseIds, data \in AccessPatchPayloads :
        Serve(Request("exercise-detail", "PATCH", c, w, e, data), MaxRows)

DeleteExercise ==
    \E c \in Callers, w \in WorkoutIds, e \in ExerciseIds :
        Serve(Request("exercise-detail", "DELETE", c, w, e, NoData), MaxRows)

Next ==
    \/ CreateUser
    \/ ListWorkouts
    \/ CreateWorkout
    \/ DeleteWorkout
    \/ ReadOrUpdateWorkout
    \/ ListExercises
    \/ CreateExercise
    \/ UpdateExercise
    \/ DeleteExercise

Spec == Init /\ [][Next]_vars

(***************************************************************************)
(* Field rules of an exercise: the owner works on the exercises of one     *)
(* workout.                                                                *)
(***************************************************************************)
AmyRow ==
    [username |-> Amy, protein_goal |-> DefaultGoal, todays_protein |-> 0,
     protein_last_update |-> 1]

InitExercise ==
    /\ users = (1 :> AmyRow)
    /\ workouts = (1 :> [name |-> Legs, owner |-> 1])
    /\ exercises = << >>
    /\ seq = [user |-> 2, workout |-> 2, exercise |-> 1]
    /\ today = 1
    /\ last = NoTrace
    /\ lastProtein = NoProteinTrace
    /\ created = << >>
    /\ reqs = NoRequests

OwnerCreatesExercise ==
    \E data \in ExerciseCreatePayloads :
        Serve(Request("exercises", "POST", 1, 1, 0, data), MaxFieldExercises + 1)

OwnerUpdatesExercise ==
    \E e \in 1..MaxFieldExercises, data \in ExercisePatchPayloads :
        Serve(Request("exercise-detail", "PATCH", 1, 1, e, data), MaxFieldExercises + 1)

OwnerDeletesExercise ==
    \E e \in 1..MaxFieldExercises :
        Serve(Request("exercise-detail", "DELETE", 1, 1, e, NoData), MaxFieldExercises + 1)

NextExercise ==
    \/ OwnerCreatesExercise
    \/ OwnerUpdatesExercise
    \/ OwnerDeletesExercise

SpecExercise == InitExercise /\ [][NextExercise]_vars

(***************************************************************************)
(* The daily protein counter of one account, one request at a time.        *)
(***************************************************************************)
AddValues ==
    {IntV(30), IntV(470), IntV(480), IntV(500), IntV(0), IntV(0 - 10),
     StrV(<<"3", "0">>), StrV(<<"a", "b", "c">>), DecV(309, 1)}

GoalValues == {IntV(200), IntV(0), IntV(ProteinCap + 1), StrV(<<"a", "b", "c">>)}

ProteinPayloads ==
    {[protein_to_add |-> a] : a \in AddValues}
    \cup {[protein_goal |-> g] : g \in GoalValues}
    \cup {[protein_to_add |-> a, protein_goal |-> g] : a \in AddValues, g \in GoalValues}
    \cup {[protein_goal |-> IntV(200), todays_protein |-> IntV(7)],
          [todays_protein |-> IntV(7)]}

InitProtein ==
    /\ users = (1 :> AmyRow)
    /\ workouts = << >>
    /\ exercises = << >>
    /\ seq = [user |-> 2, workout |-> 1, exercise |-> 1]
    /\ today = 1
    /\ last = NoTrace
    /\ lastProtein = NoProteinTrace
    /\ created = << >>
    /\ reqs = NoRequests

GetProtein ==
    \E c \in Callers : Serve(Request("protein", "GET", c, 0, 0, NoData), MaxRows)

PatchProtein ==
    \E c \in Callers, data \in ProteinPayloads :
        Serve(Request("protein", "PATCH", c, 0, 0, data), MaxRows)

\* midnight: date.today() moves on
Tick ==
    /\ today < MaxDay
    /\ today' = today + 1
    /\ UNCHANGED <<users, workouts, exercises, seq, last, lastProtein, created, reqs>>

NextProtein ==
    \/ GetProtein
    \/ PatchProtein
    \/ Tick

SpecProtein == InitProtein /\ [][NextProtein]_vars

(***************************************************************************)
(* The protein PATCH of one account under concurrent requests.  A request  *)
(* loads the account once, when it is authenticated, and works on that     *)
(* instance; every step below holds at most one statement of the store.    *)
(***************************************************************************)
Slots == 1..MaxRequests

ConcPayloads ==
    {[protein_to_add |-> IntV(200)],
     [protein_to_add |-> IntV(400)],
     [protein_goal |-> IntV(200)],
     [protein_to_add |-> IntV(200), protein_goal |-> IntV(0)]}

Idle == [pc |-> "idle", data |-> NoData, self |-> AmyRow, status |-> "none"]

InitConc ==
    /\ users = (1 :> AmyRow)
    /\ workouts = << >>
    /\ exercises = << >>
    /\ seq = [user |-> 2, workout |-> 1, exercise |-> 1]
    /\ today = 1
    /\ last = NoTrace
    /\ lastProtein = NoProteinTrace
    /\ created = << >>
    /\ reqs = [r \in Slots |-> Idle]

ConcFrame == UNCHANGED <<workouts, exercises, seq, today, last, lastProtein, created>>

\* authentication: request.user is read from the store
Authenticate(r) ==
    /\ reqs[r].pc = "idle"
    /\ \E data \in ConcPayloads :
          reqs' = [reqs EXCEPT ![r] = [pc |-> IF "protein_to_add" \in Keys(data)
                                                THEN "get_object" ELSE "update",
                                         data |-> data, self |-> users[1],
                                         status |-> "none"]]
    /\ UNCHANGED users
    /\ ConcFrame

\* partial_update: int(protein_to_add), then get_object() resets the counter
GetObjectForAdd(r) ==
    /\ reqs[r].pc = "get_object"
    /\ IF ~PyInt(reqs[r].data["protein_to_add"]).ok
       THEN /\ reqs' = [reqs EXCEPT ![r].pc = "done", ![r].status = "ValidationError"]
            /\ UNCHANGED users
       ELSE \E x \in {reset_todays_protein(reqs[r].self, today)} :
              /\ users' = [users EXCEPT ![1] = Save(@, x.self, x.save)]
              /\ reqs' = [reqs EXCEPT ![r].pc = "add", ![r].self = x.self]
    /\ ConcFrame

\* add_protein on the instance, saving todays_protein
AddProtein(r) ==
    /\ reqs[r].pc = "add"
    /\ \E a \in {add_protein(reqs[r].self, PyInt(reqs[r].data["protein_to_add"]).n)} :
          /\ users' = [users EXCEPT ![1] = Save(@, a.self, a.save)]
          /\ reqs' = [reqs EXCEPT ![r].pc = IF a.ok THEN "update" ELSE "done",
                                  ![r].self = a.self,
                                  ![r].status = IF a.ok THEN "none" ELSE "ValidationError"]
    /\ ConcFrame

\* update(): get_object() again
GetObjectForUpdate(r) ==
    /\ reqs[r].pc = "update"
    /\ \E x \in {reset_todays_protein(reqs[r].self, today)} :
          /\ users' = [users EXCEPT ![1] = Save(@, x.self, x.save)]
          /\ reqs' = [reqs EXCEPT ![r].pc = "save", ![r].self = x.self]
    /\ ConcFrame

\* update(): is_valid(), then serializer.save() writes the whole instance
SaveSerializer(r) ==
    /\ reqs[r].pc = "save"
    /\ IF ProteinErrors(reqs[r].data) # {}
       THEN /\ reqs' = [reqs EXCEPT ![r].pc = "done", ![r].status = "ValidationError"]
            /\ UNCHANGED users
       ELSE \E u \in {ProteinSerializerUpdate(reqs[r].self, reqs[r].data)} :
              /\ users' = [users EXCEPT ![1] = Save(@, u.self, u.save)]
              /\ reqs' = [reqs EXCEPT ![r].pc = "done", ![r].self = u.self,
                                      ![r].status = "OK"]
    /\ ConcFrame

Midnight ==
    /\ today < MaxDay
    /\ today' = today + 1
    /\ UNCHANGED <<users, workouts, exercises, seq, last, lastProtein, created, reqs>>

NextConc ==
    \/ \E r \in Slots : Authenticate(r)
    \/ \E r \in Slots : GetObjectForAdd(r)
    \/ \E r \in Slots : AddProtein(r)
    \/ \E r \in Slots : GetObjectForUpdate(r)
    \/ \E r \in Slots : SaveSerializer(r)
    \/ Midnight

SpecConc == InitConc /\ [][NextConc]_vars

(***************************************************************************)
(* Account creation under concurrent requests: a request validates its     *)
(* payload against the store, and creates the account in a later step.     *)
(***************************************************************************)
Free == [pc |-> "idle", data |-> NoData, status |-> "none", errors |-> {}]

InitSignup ==
    /\ users = << >>
    /\ workouts = << >>
    /\ exercises = << >>
    /\ seq = [user |-> 1, workout |-> 1, exercise |-> 1]
    /\ today = 1
    /\ last = NoTrace
    /\ lastProtein = NoProteinTrace
    /\ created = << >>
    /\ reqs = [r \in Slots |-> Free]

SignupFrame == UNCHANGED <<workouts, exercises, today, last, lastProtein, created>>

\* serializer.is_valid(): required fields and validate_username
ValidateUser(r) ==
    /\ reqs[r].pc = "idle"
    /\ \E data \in UserPayloads :
          reqs' = [reqs EXCEPT ![r] =
                     IF UserErrors(DB, data) # {}
                     THEN [pc |-> "done", data |-> data, status |-> "ValidationError",
                           errors |-> UserErrors(DB, data)]
                     ELSE [pc |-> "create", data |-> data, status |-> "none",
                           errors |-> {}]]
    /\ UNCHANGED <<users, seq>>
    /\ SignupFrame

\* serializer.save(): UserSerializer.create
SaveUser(r) ==
    /\ reqs[r].pc = "create"
    /\ \E x \in {UserSerializerCreate(DB, today, reqs[r].data)} :
          /\ users' = x.db.users
          /\ seq' = x.db.seq
          /\ reqs' = [reqs EXCEPT ![r].pc = "done", ![r].status = x.resp.status,
                                  ![r].errors = x.resp.errors]
    /\ SignupFrame

\* the response is sent and the worker takes the next request
Respond(r) ==
    /\ reqs[r].pc = "done"
    /\ reqs' = [reqs EXCEPT ![r] = Free]
    /\ UNCHANGED <<users, seq>>
    /\ SignupFrame

NextSignup ==
    \/ \E r \in Slots : ValidateUser(r)
    \/ \E r \in Slots : SaveUser(r)
    \/ \E r \in Slots : Respond(r)

SpecSignup == InitSignup /\ [][NextSignup]_vars

(***************************************************************************)
(* Ownership claims, checked in every reachable state of Spec against      *)
(* every request of the kind the claim is about.                           *)
(***************************************************************************)
Accounts == DOMAIN users

AnyWorkoutId == 1..(MaxWorkouts + 1)

AnyExerciseId == 1..MaxRows

Answer(req) == Dispatch(DB, today, req)

WorkoutPathMethods == {"GET", "PUT", "PATCH", "DELETE"}

\* C1 as claimed: a read, update or delete of another user's workout is
\* answered NotFound and changes nothing.
C1_ForeignWorkoutNotFound ==
    \A b \in Accounts, w \in DOMAIN workouts, m \in WorkoutPathMethods :
        workouts[w].owner # b =>
            \E r \in {Answer(Request("workout-delete", m, b, w, 0, [name |-> StrV(Bench)]))} :
                r.resp.status = "NotFound" /\ r.db = DB

\* C1 (amended): a delete of another user's workout is answered NotFound; a
\* read or update on the workout path is answered MethodNotAllowed, as it is
\* for every authenticated caller; in each case the workout and its
\* exercises are unchanged.
C1_ForeignWorkoutUntouched ==
    \A b \in Accounts, w \in DOMAIN workouts, m \in WorkoutPathMethods :
        workouts[w].owner # b =>
            \E r \in {Answer(Request("workout-delete", m, b, w, 0, [name |-> StrV(Bench)]))} :
                /\ r.resp.status = IF m = "DELETE" THEN "NotFound" ELSE "MethodNotAllowed"
                /\ r.db = DB

C1_Witness ==
    /\ last.view = "workout-delete"
    /\ last.target = "foreign"
    /\ last.status = "NotFound"
    /\ exercises # << >>

ExerciseDetailRequests(c, w, e) ==
    {Request("exercise-detail", "PATCH", c, w, e, data) : data \in AccessPatchPayloads}
    \cup {Request("exercise-detail", "DELETE", c, w, e, NoData)}

Resolves(c, w, e) ==
    /\ w \in DOMAIN workouts
    /\ workouts[w].owner = c
    /\ e \in DOMAIN exercises
    /\ exercises[e].workout = w

\* C2: an exercise update or delete by path (w, e) from caller c resolves
\* the exercise exactly when w exists, c owns w and e belongs to w; every
\* other path is answered NotFound and changes nothing.
C2_ExerciseResolvedIffOwned ==
    \A c \in Accounts, w \in AnyWorkoutId, e \in AnyExerciseId :
        \A req \in ExerciseDetailRequests(c, w, e) :
            \E r \in {Answer(req)} :
                /\ (r.resp.status # "NotFound") <=> Resolves(c, w, e)
                /\ ~Resolves(c, w, e) => r.db = DB

C2_Witness ==
    /\ last.view = "exercise-detail"
    /\ last.target = "own-elsewhere"
    /\ last.status = "NotFound"

\* the requests a caller can address to a workout id
WorkoutScoped(c, w) ==
    {Request("workout-delete", "DELETE", c, w, 0, NoData),
     Request("exercises", "GET", c, w, 0, NoData)}
    \cup {Request("exercises", "POST", c, w, 0, data) : data \in AccessCreatePayloads}
    \cup UNION {ExerciseDetailRequests(c, w, e) : e \in AnyExerciseId}

\* the store in which workout w (and so its exercises) does not exist
WithoutWorkout(db, w) == DeleteWorkoutRow(db, w)

\* the store in which exercise e does not exist
WithoutExercise(db, e) ==
    [db EXCEPT !.exercises = [x \in DOMAIN db.exercises \ {e} |-> db.exercises[x]]]

\* C3: the response to a request on a workout id the caller does not own is
\* the same whether the workout exists (with or without the nested
\* exercise) or does not exist at all.
C3_ForeignLooksAbsent ==
    \A c \in Accounts, w \in DOMAIN workouts :
        workouts[w].owner # c =>
            \A req \in WorkoutScoped(c, w) :
                \E r \in {Answer(req).resp} :
                    /\ r = Dispatch(WithoutWorkout(DB, w), today, req).resp
                    /\ r = Dispatch(WithoutExercise(DB, req.eid), today, req).resp

C3_Witness ==
    /\ last.view = "exercise-detail"
    /\ last.target = "foreign"
    /\ last.status = "NotFound"
    /\ exercises # << >>
    /\ \E w \in WorkoutIds : w \notin DOMAIN workouts

\* every request of the API, sent without a valid identity
AnonymousRequests ==
    {Request("users", "POST", Anon, 0, 0, data) : data \in UserPayloads}
    \cup {Request("workouts", "GET", Anon, 0, 0, NoData)}
    \cup {Request("workouts", "POST", Anon, 0, 0, data) : data \in WorkoutPayloads}
    \cup {Request("protein", "GET", Anon, 0, 0, NoData)}
    \cup {Request("protein", "PATCH", Anon, 0, 0, data) : data \in ConcPayloads}
    \cup UNION {WorkoutScoped(Anon, w) : w \in AnyWorkoutId}

\* C9: without a valid identity every protected operation is answered
\* Unauthorized, whether or not the resource exists, and changes nothing;
\* account creation is the only operation that can succeed.
C9_AnonymousUnauthorized ==
    \A req \in AnonymousRequests :
        \E r \in {Answer(req)} :
            IF req.view = "users"
            THEN r.resp.status \in {"Created", "ValidationError"}
            ELSE r.resp.status = "Unauthorized" /\ r.db = DB

C9_Witness ==
    /\ last.view = "exercise-detail"
    /\ last.target = "anonymous"
    /\ last.status = "Unauthorized"
    /\ exercises # << >>
    /\ Cardinality(Accounts) = 2

\* C10: an exercise keeps the name and sets it was created with.
C10_NameAndSetsFrozen ==
    \A e \in DOMAIN exercises :
        /\ exercises[e].name = created[e].name
        /\ exercises[e].sets = created[e].sets

C10_Witness ==
    /\ last.view = "exercise-detail"
    /\ last.target = "own-exercise"
    /\ last.status = "OK"
    /\ \E e \in DOMAIN exercises : exercises[e].reps = 3

\* C15: a workout created by caller c has owner c whatever owner the payload
\* names, and an exercise created under the path of workout w, which c owns,
\* belongs to w whatever workout the payload names; nothing else changes.
C15_ParentFromContext ==
    /\ \A c \in Accounts, o \in 1..3 :
          \E r \in {Answer(Request("workouts", "POST", c, 0, 0,
                                   [name |-> StrV(Legs), owner |-> IntV(o)]))} :
              /\ r.resp.status = "Created"
              /\ DOMAIN r.db.workouts = DOMAIN workouts \cup {seq.workout}
              /\ r.db.workouts[seq.workout].owner = c
              /\ \A w \in DOMAIN workouts : r.db.workouts[w] = workouts[w]
              /\ r.resp.body = {[id |-> seq.workout, name |-> Legs, owner |-> c]}
    /\ \A c \in Accounts, w \in DOMAIN workouts, x \in AnyWorkoutId :
          workouts[w].owner = c =>
              \E r \in {Answer(Request("exercises", "POST", c, w, 0,
                                       [name |-> StrV(Squat), sets |-> IntV(3),
                                        reps |-> IntV(5), workout |-> IntV(x)]))} :
                  /\ r.resp.status = "Created"
                  /\ DOMAIN r.db.exercises = DOMAIN exercises \cup {seq.exercise}
                  /\ r.db.exercises[seq.exercise].workout = w
                  /\ \A e \in DOMAIN exercises : r.db.exercises[e] = exercises[e]
                  /\ r.db.workouts = workouts

C15_Witness ==
    /\ last.view = "exercises"
    /\ last.status = "Created"
    /\ \E e \in DOMAIN exercises : exercises[e].workout = 1
    /\ 2 \in DOMAIN workouts
    /\ workouts[1].owner = 2
    /\ workouts[2].owner = 1

\* C16: the workout list of caller c holds exactly the workouts owned by c,
\* the exercise list under a workout w that c owns holds exactly the
\* exercises of w, and listing changes nothing.
C16_ListsScopedToCaller ==
    /\ \A c \in Accounts :
          \E r \in {Answer(Request("workouts", "GET", c, 0, 0, NoData))} :
              /\ r.resp.status = "OK"
              /\ r.db = DB
              /\ {b.id : b \in r.resp.body}
                    = {w \in DOMAIN workouts : workouts[w].owner = c}
              /\ \A b \in r.resp.body :
                    b = [id |-> b.id, name |-> workouts[b.id].name, owner |-> c]
    /\ \A c \in Accounts, w \in DOMAIN workouts :
          workouts[w].owner = c =>
              \E r \in {Answer(Request("exercises", "GET", c, w, 0, NoData))} :
                  /\ r.resp.status = "OK"
                  /\ r.db = DB
                  /\ {b.id : b \in r.resp.body}
                        = {e \in DOMAIN exercises : exercises[e].workout = w}
                  /\ \A b \in r.resp.body :
                        b = [id |-> b.id, name |-> exercises[b.id].name,
                             sets |-> exercises[b.id].sets, reps |-> exercises[b.id].reps,
                             weight |-> exercises[b.id].weight]

C16_Witness ==
    /\ last.view = "exercises"
    /\ last.target = "own"
    /\ last.status = "OK"
    /\ \E v, w \in DOMAIN workouts : workouts[v].owner # workouts[w].owner
    /\ exercises # << >>

\* C17: a list or create of exercises under a workout id that the caller
\* does not own, or that does not exist, is answered NotFound whatever the
\* payload is, and creates no exercise.
C17_OwnershipBeforeValidation ==
    \A c \in Accounts, w \in AnyWorkoutId :
        (w \notin DOMAIN workouts \/ workouts[w].owner # c) =>
            \A req \in {Request("exercises", "GET", c, w, 0, NoData)}
                       \cup {Request("exercises", "POST", c, w, 0, data) :
                               data \in AccessCreatePayloads} :
                \E r \in {Answer(req)} :
                    r.resp.status = "NotFound" /\ r.db = DB

\* C20: no exercise is without its workout and no workout without its
\* owner, and a delete of a workout by its owner removes that workout and
\* the exercises that belong to it and leaves every other record as it is.
C20_CascadeAndNoOrphans ==
    /\ \A e \in DOMAIN exercises : exercises[e].workout \in DOMAIN workouts
    /\ \A w \in DOMAIN workouts : workouts[w].owner \in DOMAIN users
    /\ \A w \in DOMAIN workouts :
          \E r \in {Answer(Request("workout-delete", "DELETE", workouts[w].owner, w, 0, NoData))} :
              /\ r.resp.status = "NoContent"
              /\ DOMAIN r.db.workouts = DOMAIN workouts \ {w}
              /\ \A v \in DOMAIN r.db.workouts : r.db.workouts[v] = workouts[v]
              /\ DOMAIN r.db.exercises = {e \in DOMAIN exercises : exercises[e].workout # w}
              /\ \A e \in DOMAIN r.db.exercises : r.db.exercises[e] = exercises[e]
              /\ r.db.users = users

C20_Witness ==
    /\ last.view = "workout-delete"
    /\ last.target = "own-parent"
    /\ last.status = "NoContent"
    /\ exercises = << >>
    /\ workouts # << >>

(***************************************************************************)
(* Daily counter claims, checked in every reachable state of SpecProtein   *)
(* against every protein request of the account.                           *)
(***************************************************************************)
Account == users[1]

AfterReset == reset_todays_protein(Account, today)

ProteinPatch(data) == Answer(Request("protein", "PATCH", 1, 0, 0, data))

ProteinGet == Answer(Request("protein", "GET", 1, 0, 0, NoData))

\* protein_to_add is refused: not a number, not positive, or over the cap
AddRefused(data) ==
    \E n \in {PyInt(data["protein_to_add"])} :
        \/ ~n.ok
        \/ n.n <= 0
        \/ AfterReset.self.todays_protein + n.n > ProteinCap

\* C5 as claimed: a PATCH whose protein_to_add fails validation fails as a
\* whole and leaves protein_goal, todays_protein and protein_last_update
\* with the values stored before the request.
C5_RefusedAddPersistsNothing ==
    \A data \in ProteinPayloads :
        ("protein_to_add" \in Keys(data) /\ AddRefused(data)) =>
            \E r \in {ProteinPatch(data)} :
                /\ r.resp.status = "ValidationError"
                /\ r.db.users[1] = Account

\* C5 (amended): such a PATCH fails as a whole and persists nothing but the
\* request's own Reset: protein_goal keeps its stored value, and
\* todays_protein and protein_last_update are as Reset left them (untouched
\* when protein_to_add is not a number, since Reset has not run yet).
C5_RefusedAddPersistsOnlyReset ==
    \A data \in ProteinPayloads :
        ("protein_to_add" \in Keys(data) /\ AddRefused(data)) =>
            \E r \in {ProteinPatch(data)} :
                /\ r.resp.status = "ValidationError"
                /\ r.db.users[1] =
                      IF PyInt(data["protein_to_add"]).ok
                      THEN Save(Account, AfterReset.self, AfterReset.save)
                      ELSE Account
                /\ r.db.users[1].protein_goal = Account.protein_goal

C5_Witness ==
    /\ lastProtein.payload = "add+goal"
    /\ lastProtein.status = "ValidationError"
    /\ lastProtein.changed
    /\ Account.todays_protein = 0
    /\ Account.protein_last_update = today

\* the amount a request adds: 0 when it carries no protein_to_add
OwnIntake(data) ==
    IF "protein_to_add" \in Keys(data) THEN PyInt(data["protein_to_add"]).n ELSE 0

Completed(r, data) ==
    /\ r.db.users[1].protein_last_update = today
    /\ \A b \in r.resp.body :
          /\ b.todays_protein = r.db.users[1].todays_protein
          /\ Account.protein_last_update # today => b.todays_protein = OwnIntake(data)
    /\ r.resp.body # {}

\* C7: after a completed protein GET or a successful PATCH the stored
\* protein_last_update is the current day, and on the first access of a new
\* day the counter returned holds no intake of an earlier day.
C7_LazyReset ==
    /\ Completed(ProteinGet, NoData)
    /\ \A data \in ProteinPayloads :
          \E r \in {ProteinPatch(data)} : r.resp.status = "OK" => Completed(r, data)

C7_Witness ==
    /\ lastProtein.method = "GET"
    /\ lastProtein.status = "OK"
    /\ lastProtein.changed
    /\ today > 1

IntAmounts ==
    {0 - 10, 0, 1, 30, 470, 480, ProteinCap, ProteinCap + 1,
     ProteinCap - AfterReset.self.todays_protein,
     ProteinCap - AfterReset.self.todays_protein + 1}

\* C8: Add with amount a on the post-reset counter p succeeds exactly when
\* a > 0 and p + a <= 500; then the stored counter is p + a, otherwise p.
C8_AddWithinCap ==
    \A a \in IntAmounts :
        \E p \in {AfterReset.self.todays_protein} :
            \E r \in {ProteinPatch([protein_to_add |-> IntV(a)])} :
                /\ add_protein(AfterReset.self, a).ok <=> (a > 0 /\ p + a <= ProteinCap)
                /\ (r.resp.status = "OK") <=> (a > 0 /\ p + a <= ProteinCap)
                /\ r.db.users[1].todays_protein =
                      IF a > 0 /\ p + a <= ProteinCap THEN p + a ELSE p

C8_Witness ==
    /\ lastProtein.payload = "add"
    /\ lastProtein.status = "OK"
    /\ Account.todays_protein = ProteinCap
    /\ Account.protein_goal # DefaultGoal

\* the goal a payload asks for, when it is one the serializer accepts
GoalAsked(data, stored) ==
    IF "protein_goal" \in Keys(data) /\ ProteinErrors(data) = {}
    THEN IntegerField(data["protein_goal"]).n ELSE stored

C12_ResetIdempotent ==
    /\ Account.protein_last_update = today =>
          /\ AfterReset.save = {}
          /\ AfterReset.self = Account
          /\ ProteinGet.db = DB
    /\ Account.protein_last_update # today =>
          /\ AfterReset.save = {"todays_protein", "protein_last_update"}
          /\ ProteinGet.db.users[1] =
                [Account EXCEPT !.todays_protein = 0, !.protein_last_update = today]
    /\ \E once \in {ProteinGet.db} :
          /\ reset_todays_protein(once.users[1], today).save = {}
          /\ Dispatch(once, today, Request("protein", "GET", 1, 0, 0, NoData)).db = once

C12_Witness ==
    /\ lastProtein.method = "GET"
    /\ lastProtein.status = "OK"
    /\ ~lastProtein.changed
    /\ Account.todays_protein > 0
    /\ Account.protein_last_update = today
    /\ today > 1

\* every stored field is within the range its model declares
FieldRanges ==
    /\ \A u \in DOMAIN users :
          /\ users[u].todays_protein \in 0..ProteinCap
          /\ users[u].protein_goal \in 1..ProteinCap
    /\ \A w \in DOMAIN workouts : Len(workouts[w].name) \in 1..MaxNameLen
    /\ \A e \in DOMAIN exercises :
          /\ exercises[e].sets \in 1..MaxCount
          /\ exercises[e].reps \in 1..MaxCount
          /\ Len(exercises[e].name) \in 1..MaxNameLen

\* the payload asks for a goal or an amount that would leave the ranges
OutOfRange(data) ==
    \/ "protein_goal" \in Keys(data)
          /\ ~InRange(IntegerField(data["protein_goal"]), 1, ProteinCap)
    \/ "protein_to_add" \in Keys(data) /\ AddRefused(data)

\* C18: every stored field stays within its range, and a create or update
\* that would leave a range is answered ValidationError and persists
\* nothing.
C18_FieldRangesKept ==
    /\ FieldRanges
    /\ \A data \in ProteinPayloads :
          OutOfRange(data) =>
              \E r \in {ProteinPatch(data)} :
                  r.resp.status = "ValidationError" /\ r.db = DB
    /\ \E r \in {Answer(Request("workouts", "POST", 1, 0, 0, [name |-> StrV(LongName)]))} :
          r.resp.status = "ValidationError" /\ r.db = DB

\* amounts within the cap
CapAmounts == {1, 30, 470, ProteinCap - 1, ProteinCap}

\* C19: on the first protein request of a day, an add of a, 0 < a <= 500,
\* succeeds and leaves todays_protein = a, whatever counter the earlier day
\* left: the cap is evaluated after the reset.
C19_AddAfterReset ==
    Account.protein_last_update # today =>
        \A a \in CapAmounts :
            \E r \in {ProteinPatch([protein_to_add |-> IntV(a)])} :
                /\ r.resp.status = "OK"
                /\ r.db.users[1].todays_protein = a
                /\ r.db.users[1].protein_last_update = today
                /\ \A b \in r.resp.body : b.todays_protein = a

C19_Witness ==
    /\ lastProtein.stale
    /\ lastProtein.payload = "add"
    /\ lastProtein.status = "OK"
    /\ Account.todays_protein = ProteinCap
    /\ Account.protein_last_update = today

\* C21: a protein PATCH answered with a ValidationError leaves the stored
\* todays_protein and protein_goal as the request's Reset left them: the
\* amount of a refused request is never added.
C21_RefusedPatchAddsNothing ==
    \A data \in ProteinPayloads :
        \E r \in {ProteinPatch(data)} :
            r.resp.status = "ValidationError" =>
                /\ r.db.users[1].todays_protein = AfterReset.self.todays_protein
                /\ r.db.users[1].protein_goal = Account.protein_goal

(***************************************************************************)
(* Account claims, checked in every reachable state of SpecSignup.         *)
(***************************************************************************)
\* the payloads whose username is a case variant of a stored username
Variants ==
    {data \in UserPayloads :
        \E u \in DOMAIN users : Lower(data["username"].s) = Lower(users[u].username)}

\* C13: stored usernames are lowercase and pairwise distinct, also when
\* create requests overlap, and a create whose username is a case variant
\* of a stored one is refused with a ValidationError on username.
C13_UsernamesUnique ==
    /\ \A u \in DOMAIN users : users[u].username = Lower(users[u].username)
    /\ \A u, v \in DOMAIN users : u # v => users[u].username # users[v].username
    /\ \A data \in Variants :
          \E r \in {Answer(Request("users", "POST", Anon, 0, 0, data))} :
              /\ r.resp.status = "ValidationError"
              /\ "username" \in r.resp.errors
              /\ r.db = DB

C13_Witness ==
    /\ \E r \in Slots : reqs[r].pc = "done" /\ reqs[r].status = "IntegrityError"
    /\ \E r \in Slots :
          /\ reqs[r].pc = "done"
          /\ reqs[r].status = "ValidationError"
          /\ reqs[r].errors = {"username"}
          /\ reqs[r].data["username"].s = AmyCaps
    /\ Cardinality(DOMAIN users) = 1

Digits8 == <<"1", "2", "3", "4", "5", "6", "7", "8">>

\* create payloads: the accepted ones and one of each kind of refusal
SignupPayloads ==
    UserPayloads
    \cup {[password |-> StrV(StrongPass)],
          [username |-> StrV(Bob)],
          [username |-> StrV(<< >>), password |-> StrV(StrongPass)],
          [username |-> StrV(Bob), password |-> StrV(<<"p", "a", "s", "s", "w", "o", "r", "d">>)],
          [username |-> StrV(Bob), password |-> StrV(Digits8)],
          [username |-> StrV(StrongPass), password |-> StrV(StrongPass)]}

\* C14: a create-account request that is refused leaves the stored accounts
\* as they were, and a request is either refused with a ValidationError or
\* creates exactly one account.
C14_RefusedCreatePersistsNothing ==
    \A data \in SignupPayloads :
        \E r \in {Answer(Request("users", "POST", Anon, 0, 0, data))} :
            /\ r.resp.status \in {"Created", "ValidationError"}
            /\ r.resp.status = "ValidationError" => r.db = DB
            /\ r.resp.status = "Created" =>
                  /\ Cardinality(DOMAIN r.db.users) = Cardinality(DOMAIN users) + 1
                  /\ \A u \in DOMAIN users : r.db.users[u] = users[u]

C14_Witness ==
    /\ \E r \in Slots :
          /\ reqs[r].pc = "done"
          /\ reqs[r].status = "ValidationError"
          /\ reqs[r].errors = {"password"}
    /\ \E r \in Slots :
          /\ reqs[r].pc = "done"
          /\ reqs[r].status = "ValidationError"
          /\ reqs[r].errors = {"username"}
    /\ Cardinality(DOMAIN users) = 1

(***************************************************************************)
(* Exercise update claim, checked in every reachable state of SpecExercise.*)
(***************************************************************************)
\* C6: a PATCH carrying any key other than reps and weight fails with a
\* ValidationError that names each such key, and changes nothing.
C6_OtherKeysRejected ==
    \A e \in DOMAIN exercises, data \in ExercisePatchPayloads :
        Keys(data) \ ExerciseAllowed # {} =>
            \E r \in {Answer(Request("exercise-detail", "PATCH", 1, 1, e, data))} :
                /\ r.resp.status = "ValidationError"
                /\ r.resp.errors = Keys(data) \ ExerciseAllowed
                /\ r.db = DB

(***************************************************************************)
(* Concurrency claim, checked in every reachable state of SpecConc.        *)
(***************************************************************************)
RECURSIVE SumAdded(_)
SumAdded(S) ==
    IF S = {} THEN 0
    ELSE LET r == CHOOSE x \in S : TRUE
         IN  (IF reqs[r].status = "OK" THEN OwnIntake(reqs[r].data) ELSE 0)
             + SumAdded(S \ {r})

\* the requests in flight that carry exactly the keys `keys`
Carrying(keys) == {r \in Slots : Keys(reqs[r].data) = keys}

\* C22: when a PATCH that only adds protein and PATCHes that only set the
\* goal have run concurrently on one day and all succeeded, the account
\* holds the goal asked for and the amount added.
C22_NoStaleOverwrite ==
    (/\ today = 1
     /\ \A r \in Slots : reqs[r].pc = "done" /\ reqs[r].status = "OK"
     /\ Cardinality(Carrying({"protein_to_add"})) = 1
     /\ Carrying({"protein_goal"}) = Slots \ Carrying({"protein_to_add"}))
    => /\ users[1].protein_goal = 200
       /\ users[1].todays_protein = SumAdded(Slots)

\* C4: when concurrent PATCH requests that only carry protein_to_add have

\* all finished on one day, todays_protein is the sum of the amounts of the
\* requests answered with success.
C4_NoLostAdd ==
    (/\ today = 1
     /\ \A r \in Slots : reqs[r].pc = "done" /\ Keys(reqs[r].data) = {"protein_to_add"})
    => users[1].todays_protein = SumAdded(Slots)

====
